---- MODULE Spec2Model ----
(***************************************************************************)
(* Model of the windowed dataset layer and the decoder of RS_Opt           *)
(* (deep_insight):                                                         *)
(*   - the contiguous-block train/test split of the driver scripts        *)
(*     (src/test_model.py, src/utils/get_MJ_dataset.py),                   *)
(*   - create_train_and_test_datasets and WaveletDataset                   *)
(*     (src/deep_insight/wavelet_dataset.py),                              *)
(*   - Standard_Decoder (src/deep_insight/networks.py).                    *)
(*                                                                         *)
(* Number representation.  Positions are 2-vectors <<x, y>> of integers    *)
(* counting ten-thousandths (0.0001), so 0.1 is 1000, 0.0264 is 264 and    *)
(* 400 is 4000000.  An angle atan2(dy, dx) is represented by the reduced   *)
(* direction <<dy/g, dx/g>>, g = gcd(|dy|, |dx|): two deltas have the same *)
(* representation exactly when they have the same atan2.  A distance is    *)
(* represented by its square.  The recording has one frequency band and    *)
(* one channel, so a row wavelets[t, :, :] is one integer; the medians of  *)
(* numpy are kept exact by storing est_mean doubled and est_std times 4.   *)
(***************************************************************************)
EXTENDS Integers, Sequences, FiniteSets, TLC

VARIABLES
    hdf5_file,          \* [wavelets, outputs]: the arrays of the recording
    opts,               \* the options dictionary given to the views
    train_half,         \* keyword given to create_train_and_test_datasets
    exp_indices,        \* driver script: the valid index range
    cv_splits,          \* driver script: the num_cvs blocks
    pc,                 \* position of the main program
    view,               \* the two WaveletDataset objects, by name
    call,               \* per caller: the __getitem__ invocation in progress
    workers,            \* the batch-loading workers of this run
    tg,                 \* the option object the decoder is built from
    model,              \* the Standard_Decoder object
    logits              \* the last call of the decoder's forward

\* the decoder's part of the state
net == <<tg, model, logits>>

vars == <<hdf5_file, opts, train_half, exp_indices, cv_splits, pc, view, call, workers, net>>

-----------------------------------------------------------------------------
(* Bounds of the model *)

MaxT == 7            \* longest recording of the split configurations
RecT == 5            \* recording length where the recording's values vary
LabT == 4            \* recording length of the label configurations
MaxWorkers == 2      \* batch-loading workers
RecursionLimit == 3  \* nested invocations of __getitem__ the interpreter allows
MaxLen == 9          \* longest of the short window lengths given to the decoder
MaxChannels == 5     \* recording channels given to the decoder
MaxDense == 2        \* dense layers per head
MaxBatch == 2        \* rows of a batch

(* Program constants; lengths in ten-thousandths *)

TopThreshold == 1000
CentreX == 264
CentreY == 2185
Radius == 1500
LeftThreshold == 4000000

None == -1

\* the caller that constructs the views; the workers are 1, 2, ...
Main == 0

\* the length 1.0 in ten-thousandths
Unit == 10 * TopThreshold

-----------------------------------------------------------------------------
(* Helpers for arrays.  Recording arrays are functions on 0..T-1, index      *)
(* arrays are sequences.                                                     *)

Abs(n) == IF n < 0 THEN -n ELSE n

Min(a, b) == IF a < b THEN a ELSE b

RECURSIVE Gcd(_, _)
Gcd(a, b) == IF b = 0 THEN a ELSE Gcd(b, a % b)

Last(s) == s[Len(s)]

RECURSIVE Concat(_)
Concat(ss) == IF ss = <<>> THEN <<>> ELSE Head(ss) \o Concat(Tail(ss))

Range(s) == {s[i] : i \in DOMAIN s}

\* np.arange(lo, hi)
arange(lo, hi) == [k \in 1..(IF hi > lo THEN hi - lo ELSE 0) |-> lo + k - 1]

\* numpy integer-array indexing out[rng, ...]: a negative index counts from the end
FancyIndex(out, rng) ==
    LET n == Cardinality(DOMAIN out)
    IN  [k \in 1..Len(rng) |-> out[IF rng[k] < 0 THEN rng[k] + n ELSE rng[k]]]

\* the k-th smallest element of a non-empty sequence (k from 1)
Kth(s, k) ==
    CHOOSE v \in Range(s) :
        /\ Cardinality({i \in DOMAIN s : s[i] < v}) < k
        /\ Cardinality({i \in DOMAIN s : s[i] <= v}) >= k

\* twice np.median(s): the middle element, or the mean of the two middle ones
Median2(s) ==
    LET n == Len(s)
    IN  IF n % 2 = 1 THEN 2 * Kth(s, (n + 1) \div 2)
        ELSE Kth(s, n \div 2) + Kth(s, n \div 2 + 1)

-----------------------------------------------------------------------------
(* The driver scripts: contiguous-block split *)

\* array_split with the remainder dropped: n blocks of len div n elements
array_split_even(ary, n) ==
    LET each == Len(ary) \div n
    IN  [k \in 1..n |-> SubSeq(ary, (k - 1) * each + 1, k * each)]

\* np.array_split(ary, n): the first len % n blocks hold one element more
array_split(ary, n) ==
    LET each == Len(ary) \div n
        extras == Len(ary) % n
        start(k) == (k - 1) * each + Min(k - 1, extras)
        size(k) == each + (IF k <= extras THEN 1 ELSE 0)
    IN  [k \in 1..n |-> SubSeq(ary, start(k) + 1, start(k) + size(k))]

\* training_indices: the blocks cv_splits[0:-1], concatenated
TrainingOf(splits) == Concat(SubSeq(splits, 1, Len(splits) - 1))

\* the last block together with the index before it
TestingOfWide(splits) == <<Last(TrainingOf(splits))>> \o Last(splits)

\* test_indeces: the block cv_splits[-1]
TestingOf(splits) == Last(splits)

-----------------------------------------------------------------------------
(* WaveletDataset: label derivation and the region filter *)

\* math.atan2(dy, dx) as a reduced direction; atan2(0, 0) = 0 = atan2(0, 1)
atan2(dy, dx) ==
    IF dy = 0 /\ dx = 0 THEN <<0, 1>>
    ELSE LET g == Gcd(Abs(dy), Abs(dx)) IN <<dy \div g, dx \div g>>

\* utils.misc.getspeed(a, b): the Euclidean distance, kept as its square
getspeed(a, b) == (a[1] - b[1]) * (a[1] - b[1]) + (a[2] - b[2]) * (a[2] - b[2])

\* get_output_sample with the labels "pulled straight from dataset" (the
\* alternatives commented out at lines 163, 171 and 178): direction and speed
\* are the stored values of their own channels
RECURSIVE OutputLoopStored(_, _, _, _, _, _, _, _)
OutputLoopStored(outputs, keys, cut_range, prev_cut_range, i, bound, cut_data_m, pcdm) ==
    IF i > Len(keys) THEN [status |-> "ok", sample |-> <<>>]
    ELSE
      LET var_name == keys[i]
          cut_data == FancyIndex(outputs[var_name], cut_range)
          pcd == FancyIndex(outputs[var_name], prev_cut_range)
          rest(b, m, p, label) ==
              LET r == OutputLoopStored(outputs, keys, cut_range, prev_cut_range, i + 1, b, m, p)
              IN  [status |-> r.status, sample |-> <<label>> \o r.sample]
      IN  IF var_name = "position"
            THEN rest(TRUE, Last(cut_data), Last(pcd), Last(cut_data))
          ELSE IF var_name \in {"head_direction", "direction"}
            THEN IF ~bound THEN [status |-> "UnboundLocalError", sample |-> <<>>]
                 ELSE rest(bound, cut_data_m, pcdm, atan2(Last(cut_data), 1))
          ELSE IF var_name = "speed"
            THEN IF ~bound THEN [status |-> "UnboundLocalError", sample |-> <<>>]
                 ELSE rest(bound, cut_data_m, pcdm, Last(cut_data) * Last(cut_data))
          ELSE [status |-> "exit", sample |-> <<>>]

\* the loop of get_output_sample from target i on; bound says whether the
\* locals cut_data_m and pcdm have been assigned by a position target
RECURSIVE OutputLoop(_, _, _, _, _, _, _, _)
OutputLoop(outputs, keys, cut_range, prev_cut_range, i, bound, cut_data_m, pcdm) ==
    IF i > Len(keys) THEN [status |-> "ok", sample |-> <<>>]
    ELSE
      LET var_name == keys[i]
          out == outputs[var_name]
          cut_data == FancyIndex(out, cut_range)
          pcd == FancyIndex(out, prev_cut_range)
          rest(b, m, p, label) ==
              LET r == OutputLoop(outputs, keys, cut_range, prev_cut_range, i + 1, b, m, p)
              IN  [status |-> r.status, sample |-> <<label>> \o r.sample]
      IN  IF var_name = "position"
            THEN rest(TRUE, Last(cut_data), Last(pcd), Last(cut_data))
          ELSE IF var_name \in {"head_direction", "direction"}
            THEN IF ~bound THEN [status |-> "UnboundLocalError", sample |-> <<>>]
                 ELSE rest(bound, cut_data_m, pcdm,
                           atan2(cut_data_m[2] - pcdm[2], cut_data_m[1] - pcdm[1]))
          ELSE IF var_name = "speed"
            THEN IF ~bound THEN [status |-> "UnboundLocalError", sample |-> <<>>]
                 ELSE rest(bound, cut_data_m, pcdm, getspeed(cut_data_m, pcdm))
          ELSE [status |-> "exit", sample |-> <<>>]

\* WaveletDataset.get_output_sample; a failure drops the partial sample
get_output_sample(outputs, keys, cut_range, prev_cut_range) ==
    LET r == OutputLoop(outputs, keys, cut_range, prev_cut_range, 1, FALSE, <<0, 0>>, <<0, 0>>)
    IN  IF r.status = "ok" THEN r ELSE [status |-> r.status, sample |-> <<>>]

\* np.linalg.norm(p - centre) < 0.15, on exact integers
NormBelowRadius(p) ==
    LET dx == p[1] - CentreX
        dy == p[2] - CentreY
    IN  /\ Abs(dx) < Radius
        /\ Abs(dy) < Radius
        /\ dx * dx + dy * dy < Radius * Radius

\* _accept_output without its else branch: an unknown keyword filters nothing
accept_output_lenient(output_sample, rule_keyword) ==
    LET verdict(b) == IF b THEN "accept" ELSE "reject"
    IN  CASE rule_keyword = "top" -> verdict(output_sample[1][2] > TopThreshold)
          [] rule_keyword = "bottom" -> verdict(output_sample[1][2] <= TopThreshold)
          [] rule_keyword = "inside" -> verdict(NormBelowRadius(output_sample[1]))
          [] rule_keyword = "outside" -> verdict(~NormBelowRadius(output_sample[1]))
          [] rule_keyword = "left" -> verdict(output_sample[1][1] < LeftThreshold)
          [] rule_keyword = "right" -> verdict(output_sample[1][1] >= LeftThreshold)
          [] OTHER -> "accept"

\* WaveletDataset._accept_output: "accept", "reject", or "exit" for exit(0)
accept_output(output_sample, rule_keyword) ==
    LET verdict(b) == IF b THEN "accept" ELSE "reject"
    IN  CASE rule_keyword = "top" -> verdict(output_sample[1][2] > TopThreshold)
          [] rule_keyword = "bottom" -> verdict(output_sample[1][2] <= TopThreshold)
          [] rule_keyword = "inside" -> verdict(NormBelowRadius(output_sample[1]))
          [] rule_keyword = "outside" -> verdict(~NormBelowRadius(output_sample[1]))
          [] rule_keyword = "left" -> verdict(output_sample[1][1] < LeftThreshold)
          [] rule_keyword = "right" -> verdict(output_sample[1][1] >= LeftThreshold)
          [] rule_keyword = "None" -> "accept"
          [] OTHER -> "exit"

\* the pairing forgotten: the testing view gets the training view's keyword
train_half_same(keyword) ==
    IF keyword \in {"None", "top", "bottom", "inside", "outside", "left", "right"}
    THEN keyword ELSE "exit"

\* create_train_and_test_datasets, lines 20-30: the keyword of the testing view
train_half_n(keyword) ==
    CASE keyword = "None" -> "None"
      [] keyword = "top" -> "bottom"
      [] keyword = "bottom" -> "top"
      [] keyword = "inside" -> "outside"
      [] keyword = "outside" -> "inside"
      [] keyword = "left" -> "right"
      [] keyword = "right" -> "left"
      [] OTHER -> "exit"

\* the median taken over the whole recording instead of the training rows
EstMean2_AllRows(wavelets, training_indices) ==
    Median2([k \in 1..Cardinality(DOMAIN wavelets) |-> wavelets[k - 1]])

\* np.median(self.wavelets[self.training_indices, :, :], axis=0), doubled
EstMean2(wavelets, training_indices) ==
    Median2(FancyIndex(wavelets, training_indices))

\* np.median(abs(self.wavelets[self.training_indices, :, :] - self.est_mean), axis=0), times 4
EstStd4(wavelets, training_indices) ==
    LET rows == FancyIndex(wavelets, training_indices)
        mean2 == EstMean2(wavelets, training_indices)
    IN  Median2([k \in 1..Len(rows) |-> Abs(2 * rows[k] - mean2)])

\* get_input_sample cutting the window one step earlier
get_input_sample_past(v, wavelets, cut_range) ==
    LET cut_data == FancyIndex(wavelets, [k \in DOMAIN cut_range |-> cut_range[k] - 1])
    IN  [k \in 1..Len(cut_data) |-> <<4 * cut_data[k] - 2 * v.est_mean, v.est_std>>]

\* get_input_sample: (cut_data - est_mean) / est_std per time step as the
\* unreduced fraction <<4 w - 2 est_mean2, est_std4>>
get_input_sample(v, wavelets, cut_range) ==
    LET cut_data == FancyIndex(wavelets, cut_range)
    IN  [k \in 1..Len(cut_data) |-> <<4 * cut_data[k] - 2 * v.est_mean, v.est_std>>]

-----------------------------------------------------------------------------
(* The objects *)

Terminated == call[Main].pc \in {"exit", "UnboundLocalError", "RecursionError"}

NoCall ==
    [pc |-> "idle", view |-> "train", og_idx |-> None, idx |-> None,
     cut_range |-> <<>>, past_cut_range |-> <<>>, output_sample |-> <<>>,
     input_sample |-> <<>>, retried |-> FALSE, depth |-> 0]

\* entry of __getitem__(idx) on the view named n: the first of the nested
\* invocations of the method
Enter(n, i) == [NoCall EXCEPT !.pc = "resolve", !.view = n, !.og_idx = i, !.depth = 1]

\* WaveletDataset.__init__ up to the dummy __getitem__(0) of
\* prepare_data_generator: the attributes of the object built from the
\* options o and the file f
WaveletDataset(o, f, training, keyword) ==
    [ \* set_opts_as_attribute
      model_timesteps |-> o.model_timesteps,
      shuffle |-> o.shuffle,
      random_batches |-> o.random_batches,
      loss_functions |-> o.loss_functions,
      training_indices |-> o.training_indices,
      testing_indices |-> o.testing_indices,
      \* __init__
      wavelets |-> f.wavelets,
      last_pos |-> None, last_speed |-> None, last_ang |-> None, prev_ind |-> None,
      train_half |-> keyword,
      outputs |-> [k \in Range(o.loss_functions) |-> f.outputs[k]],
      training |-> training,
      \* prepare_data_generator
      sample_size |-> o.model_timesteps,
      cv_indices |-> IF training THEN o.training_indices ELSE o.testing_indices,
      est_mean |-> EstMean2(f.wavelets, o.training_indices),
      est_std |-> EstStd4(f.wavelets, o.training_indices) ]

-----------------------------------------------------------------------------
(* Actions *)

\* get_opts(fp_hdf_out, train_test_times=...): the options of the run with
\* the pair of index arrays stored as training_indices and testing_indices
get_opts(o, train_test_times) ==
    [o EXCEPT !.training_indices = train_test_times[1],
              !.testing_indices = train_test_times[2]]

\* driver script, lines 49-65: split the valid range, build the options from
\* the two index arrays, set the loss functions again and switch both random
\* modes off
Split ==
    /\ pc = "split"
    /\ LET e == arange(0, Cardinality(DOMAIN hdf5_file.wavelets) - opts.model_timesteps)
           s == array_split(e, opts.num_cvs)
       IN  /\ exp_indices' = e
           /\ cv_splits' = s
           /\ opts' = [get_opts(opts, <<TrainingOf(s), TestingOf(s)>>)
                           EXCEPT !.loss_functions = opts.loss_functions,
                                  !.shuffle = FALSE,
                                  !.random_batches = FALSE]
    /\ pc' = "create"
    /\ UNCHANGED <<hdf5_file, train_half, view, call, workers, net>>

\* create_train_and_test_datasets line 18: the training view is constructed
\* and its constructor draws the dummy sample
ConstructTraining ==
    /\ pc = "create"
    /\ view' = ("train" :> WaveletDataset(opts, hdf5_file, TRUE, train_half))
    /\ call' = [call EXCEPT ![Main] = Enter("train", 0)]
    /\ pc' = "dummy_train"
    /\ UNCHANGED <<hdf5_file, opts, train_half, exp_indices, cv_splits, workers, net>>

\* prepare_data_generator line 125 for the training view, then lines 20-31:
\* the testing view is constructed with the paired keyword
ConstructTesting ==
    /\ pc = "dummy_train"
    /\ call[Main].pc = "done"
    /\ LET shape == <<1, Len(call[Main].input_sample), 1, 1>>
           done == view["train"] @@ [input_shape |-> shape]
           kw == train_half_n(train_half)
       IN  IF kw = "exit"
           THEN /\ view' = ("train" :> done)
                /\ call' = [call EXCEPT ![Main].pc = "exit"]
                /\ pc' = pc
           ELSE /\ view' = ("train" :> done) @@ ("test" :> WaveletDataset(opts, hdf5_file, FALSE, kw))
                /\ call' = [call EXCEPT ![Main] = Enter("test", 0)]
                /\ pc' = "dummy_test"
    /\ UNCHANGED <<hdf5_file, opts, train_half, exp_indices, cv_splits, workers, net>>

\* prepare_data_generator line 125 for the testing view; line 33 returns both
Created ==
    /\ pc = "dummy_test"
    /\ call[Main].pc = "done"
    /\ view' = [view EXCEPT !["test"] =
                   @ @@ [input_shape |-> <<1, Len(call[Main].input_sample), 1, 1>>]]
    /\ call' = [call EXCEPT ![Main] = NoCall]
    /\ pc' = "ready"
    /\ UNCHANGED <<hdf5_file, opts, train_half, exp_indices, cv_splits, workers, net>>

\* a batch-loading worker asks the view named n for its item i
GetItem(w, n, i) ==
    /\ pc = "ready"
    /\ w \in workers
    /\ call[w].pc \in {"idle", "done"}
    /\ i \in 0..(Len(view[n].cv_indices) - 1)
    /\ call' = [call EXCEPT ![w] = Enter(n, i)]
    /\ UNCHANGED <<hdf5_file, opts, train_half, exp_indices, cv_splits, pc, view, workers, net>>

\* Resolve with a cursor shared through the view: once a sample has been
\* served, the index noted in prev_ind is served again
ResolveCursor(c, choice, start_index) ==
    /\ ~Terminated
    /\ call[c].pc = "resolve"
    /\ LET self == view[call[c].view]
           idx == IF self.shuffle THEN choice
                  ELSE IF self.prev_ind # None THEN self.prev_ind
                  ELSE self.cv_indices[call[c].og_idx + 1]
       IN  /\ choice \in Range(self.cv_indices)
           /\ start_index \in Range(self.cv_indices)
           /\ ~self.shuffle => choice = self.cv_indices[1]
           /\ ~self.random_batches => start_index = self.cv_indices[1]
           /\ call' = [call EXCEPT ![c] =
                 [@ EXCEPT
                    !.pc = "output",
                    !.idx = idx,
                    !.cut_range =
                        IF self.random_batches
                        THEN arange(start_index, start_index + self.model_timesteps)
                        ELSE arange(idx, idx + self.sample_size),
                    !.past_cut_range =
                        IF self.random_batches
                        THEN arange(start_index - 1, start_index + self.model_timesteps - 1)
                        ELSE arange(idx - 1, idx + self.sample_size - 1)]]
    /\ UNCHANGED <<hdf5_file, opts, train_half, exp_indices, cv_splits, pc, view, workers, net>>

\* __getitem__ lines 76-87: resolve the start index; choice and start_index
\* are the values np.random.choice returns when it is called
Resolve(c, choice, start_index) ==
    /\ ~Terminated
    /\ call[c].pc = "resolve"
    /\ LET self == view[call[c].view]
           idx == IF self.shuffle THEN choice ELSE self.cv_indices[call[c].og_idx + 1]
       IN  /\ choice \in Range(self.cv_indices)
           /\ start_index \in Range(self.cv_indices)
           /\ ~self.shuffle => choice = self.cv_indices[1]
           /\ ~self.random_batches => start_index = self.cv_indices[1]
           /\ call' = [call EXCEPT ![c] =
                 [@ EXCEPT
                    !.pc = "output",
                    !.idx = idx,
                    !.cut_range =
                        IF self.random_batches
                        THEN arange(start_index, start_index + self.model_timesteps)
                        ELSE arange(idx, idx + self.sample_size),
                    !.past_cut_range =
                        IF self.random_batches
                        THEN arange(start_index - 1, start_index + self.model_timesteps - 1)
                        ELSE arange(idx - 1, idx + self.sample_size - 1)]]
    /\ UNCHANGED <<hdf5_file, opts, train_half, exp_indices, cv_splits, pc, view, workers, net>>

\* Output without the retry: the sample is used whatever the filter says
OutputUnfiltered(c) ==
    /\ ~Terminated
    /\ call[c].pc = "output"
    /\ LET self == view[call[c].view]
           r == get_output_sample(self.outputs, self.loss_functions,
                                  call[c].cut_range, call[c].past_cut_range)
           verdict == accept_output(r.sample, self.train_half)
       IN  call' = [call EXCEPT ![c] =
               IF r.status # "ok" THEN [@ EXCEPT !.pc = r.status]
               ELSE IF verdict = "exit" THEN [@ EXCEPT !.pc = "exit"]
               ELSE [@ EXCEPT !.pc = "input", !.output_sample = r.sample,
                              !.retried = (verdict = "reject")]]
    /\ UNCHANGED <<hdf5_file, opts, train_half, exp_indices, cv_splits, pc, view, workers, net>>

\* __getitem__ lines 90-93: derive the labels and ask the region filter; a
\* rejected sample makes __getitem__ call itself with the original argument,
\* one invocation deeper each time, and the interpreter raises RecursionError
\* in place of the invocation that would exceed RecursionLimit
Output(c) ==
    /\ ~Terminated
    /\ call[c].pc = "output"
    /\ LET self == view[call[c].view]
           r == get_output_sample(self.outputs, self.loss_functions,
                                  call[c].cut_range, call[c].past_cut_range)
           verdict == accept_output(r.sample, self.train_half)
       IN  call' = [call EXCEPT ![c] =
               IF r.status # "ok" THEN [@ EXCEPT !.pc = r.status]
               ELSE IF verdict = "exit" THEN [@ EXCEPT !.pc = "exit"]
               ELSE IF verdict = "reject"
                    THEN IF call[c].depth >= RecursionLimit
                         THEN [@ EXCEPT !.pc = "RecursionError", !.retried = TRUE]
                         ELSE [@ EXCEPT !.pc = "resolve", !.retried = TRUE,
                                        !.depth = @ + 1]
               ELSE [@ EXCEPT !.pc = "input", !.output_sample = r.sample]]
    /\ UNCHANGED <<hdf5_file, opts, train_half, exp_indices, cv_splits, pc, view, workers, net>>

\* Return that also remembers the returned position in last_pos
ReturnTracking(c) ==
    /\ ~Terminated
    /\ call[c].pc = "input"
    /\ LET self == view[call[c].view]
       IN  /\ call' = [call EXCEPT ![c] =
                 [@ EXCEPT !.pc = "done",
                           !.depth = 0,
                           !.input_sample =
                               get_input_sample(self, self.wavelets, call[c].cut_range)]]
           /\ view' = [view EXCEPT ![call[c].view].prev_ind = call[c].idx,
                                   ![call[c].view].last_pos = call[c].cut_range[1]]
    /\ UNCHANGED <<hdf5_file, opts, train_half, exp_indices, cv_splits, pc, workers, net>>

\* __getitem__ lines 96-99: cut and normalise the window, note the index,
\* return the pair through every nested invocation
Return(c) ==
    /\ ~Terminated
    /\ call[c].pc = "input"
    /\ LET self == view[call[c].view]
       IN  /\ call' = [call EXCEPT ![c] =
                 [@ EXCEPT !.pc = "done",
                           !.depth = 0,
                           !.input_sample =
                               get_input_sample(self, self.wavelets, call[c].cut_range)]]
           /\ view' = [view EXCEPT ![call[c].view].prev_ind = call[c].idx]
    /\ UNCHANGED <<hdf5_file, opts, train_half, exp_indices, cv_splits, pc, workers, net>>

Callers == {Main} \cup (1..MaxWorkers)

Next ==
    \/ Split
    \/ ConstructTraining
    \/ ConstructTesting
    \/ Created
    \/ \E w \in 1..MaxWorkers, n \in {"train", "test"}, i \in 0..MaxT : GetItem(w, n, i)
    \/ \E c \in Callers, choice \in 0..MaxT, start_index \in 0..MaxT :
          Resolve(c, choice, start_index)
    \/ \E c \in Callers : Output(c)
    \/ \E c \in Callers : Return(c)

-----------------------------------------------------------------------------
(* Standard_Decoder: construction and forward                              *)
(*                                                                         *)
(* A tensor is represented by the steps that produced it from the batch    *)
(* (the names of the layers applied, in order) and by its shape, computed  *)
(* layer by layer as torch computes it; a layer that cannot take the shape *)
(* it is given raises RuntimeError.  The numbers a head's features hold    *)
(* depend on the weights; they are inputs of forward: for every head the   *)
(* lines of its squeezed feature tensor along dimension 1, each a vector   *)
(* of integers.  A cosine is counted in fifths.                            *)

\* the exponents k <= 30 with math.log(2 ** k, 2) # k in double arithmetic
InexactLog2 == {29}

\* math.log(n, 2).is_integer()
log2_is_integer(n) == \E k \in 0..30 : n = 2^k /\ k \notin InexactLog2

\* round(H / 2): a half is rounded to the even neighbour
round_half(H) ==
    IF H % 2 = 0 THEN H \div 2
    ELSE IF ((H - 1) \div 2) % 2 = 0 THEN (H - 1) \div 2 ELSE (H + 1) \div 2

\* the values H takes at the head of the loop "while H > 2"
RECURSIVE Halvings(_)
Halvings(H) == IF H > 2 THEN <<H>> \o Halvings(round_half(H)) ELSE <<>>

\* H when the loop "while H > 2" is left
RECURSIVE AfterHalvings(_)
AfterHalvings(H) == IF H > 2 THEN AfterHalvings(round_half(H)) ELSE H

\* nn.Linear, nn.Conv2d: their parameters carry torch's default
\* initialisation; wrapper names the module an attribute holds them inside
Linear(in_features, out_features) ==
    [type |-> "Linear", in_features |-> in_features, out_features |-> out_features,
     kernel_size |-> <<>>, stride |-> <<>>, padding |-> <<>>,
     weight |-> "kaiming_uniform", bias |-> "uniform", wrapper |-> "none"]

Conv2d(in_channels, out_channels, kernel_size, stride, padding) ==
    [type |-> "Conv2d", in_features |-> in_channels, out_features |-> out_channels,
     kernel_size |-> kernel_size, stride |-> stride, padding |-> padding,
     weight |-> "kaiming_uniform", bias |-> "uniform", wrapper |-> "none"]

\* a module without weight and bias: activation, dropout, noise, reshaping
Module(type) ==
    [type |-> type, in_features |-> None, out_features |-> None,
     kernel_size |-> <<>>, stride |-> <<>>, padding |-> <<>>,
     weight |-> "absent", bias |-> "absent", wrapper |-> "none"]

\* TimeDistributed(module): the wrapper keeps the module as its attribute
\* "module" and has no weight or bias attribute of its own
TimeDistributed(module) == [module EXCEPT !.wrapper = "TimeDistributed"]

\* hasattr(layer, name) for name "weight" or "bias"
hasattr(layer, name) == layer.wrapper = "none" /\ layer[name] # "absent"

\* initialise_layer: zero bias and Kaiming-normal weight where the layer has them
initialise_layer(layer) ==
    [layer EXCEPT !.bias = IF hasattr(layer, "bias") THEN "zeros" ELSE @,
                  !.weight = IF hasattr(layer, "weight") THEN "kaiming_normal" ELSE @]

\* the attribute names the constructor composes
conv_tsr(nct) == "conv_tsr_" \o ToString(nct)
conv_fr(nct) == "conv_fr_" \o ToString(nct)
conv_after_tsr(layer_counter) == "conv_after_tsr_" \o ToString(layer_counter)
target_fc(key, d) == "target_" \o key \o "_fc_" \o ToString(d)

\* lines 43-79: the setattr calls of the convolution loop and its conv_order
ConvLayers(t) ==
    Concat([k \in 1..t.num_convs_tsr |->
        <<  <<conv_tsr(k - 1),
              TimeDistributed(Conv2d(IF k = 1 THEN t.input_shape[4] ELSE t.filter_size,
                                     t.filter_size,
                                     <<t.kernel_size, t.kernel_size>>, <<2, 1>>, <<1, 1>>))>>,
            <<conv_tsr(k - 1) \o "_activation", Module(t.act_conv)>>,
            <<conv_fr(k - 1),
              TimeDistributed(Conv2d(t.filter_size, t.filter_size,
                                     <<t.kernel_size, t.kernel_size>>, <<1, 2>>, <<1, 1>>))>>,
            <<conv_fr(k - 1) \o "_activation", Module(t.act_conv)>>  >>])

\* lines 84-105: the setattr calls of the loop "while H > 2"
AfterLayers(t) ==
    Concat([k \in 1..Len(Halvings(t.input_shape[1])) |->
        <<  <<conv_after_tsr(k - 1),
              TimeDistributed(Conv2d(IF k = 1 THEN t.filter_size ELSE t.filter_size * 2,
                                     t.filter_size * 2,
                                     <<2, 1>>, <<2, 2>>, <<1, 0>>))>>,
            <<conv_after_tsr(k - 1) \o "_activation", Module(t.act_conv)>>  >>])

\* lines 85-120: H as the head loop finds it
HeadH(t) ==
    LET timesteps == t.input_shape[2]
    IN  IF timesteps = 1024 THEN 5
        ELSE IF timesteps = 512 THEN 3
        ELSE IF timesteps = 64 THEN 2
        ELSE IF timesteps < 64 THEN 1
        ELSE AfterHalvings(t.input_shape[1])

\* lines 123-145 for the i-th target: the setattr calls of its head
HeadLayers(t, i) ==
    LET key == t.loss_functions[i]
    IN  Concat([d \in 1..t.num_dense |->
            <<  <<target_fc(key, d - 1),
                  Linear(IF d = 1 THEN 256 * HeadH(t) ELSE t.num_units_dense,
                         t.num_units_dense)>>,
                <<target_fc(key, d - 1) \o "_activation", Module(t.act_fc)>>,
                <<target_fc(key, d - 1) \o "_dropout", Module("Dropout")>>  >>])
        \o << <<target_fc(key, t.num_dense),
                Linear(IF t.num_dense = 0 THEN 256 * HeadH(t) ELSE t.num_units_dense,
                       t.outputs[i].shape[2])>> >>

\* the decoder before its constructor has run
NoModel ==
    [pc |-> "none", input_shape |-> <<>>, target_names |-> <<>>, conv_order |-> <<>>,
     fc_orders |-> <<>>, layers |-> <<>>, training |-> FALSE, state_dict |-> "none"]

\* Standard_Decoder.__init__(tg): the attributes of the object, or the exit
\* of line 28; a module is in training mode when it is constructed
Standard_Decoder(t) ==
    IF ~log2_is_integer(t.input_shape[2])
    THEN [NoModel EXCEPT !.pc = "exit", !.input_shape = t.input_shape]
    ELSE
        LET heads == [i \in 1..Min(Len(t.loss_functions), Len(t.outputs)) |-> HeadLayers(t, i)]
            attrs == << <<"gaussian_noise", Module("GaussianNoise")>>,
                        <<"dropout", Module("Dropout")>>,
                        <<"sim", Module("CosineSimilarity")>> >>
                     \o ConvLayers(t)
                     \o << <<"permute", Module("Lambda")>> >>
                     \o AfterLayers(t)
                     \o << <<"flatten", Module("TimeDistributedFlatten")>> >>
                     \o Concat(heads)
            last(name) == CHOOSE k \in DOMAIN attrs :
                              /\ attrs[k][1] = name
                              /\ \A j \in DOMAIN attrs : attrs[j][1] = name => j <= k
        IN  [pc |-> "built",
             input_shape |-> t.input_shape,
             target_names |-> t.loss_functions,
             conv_order |-> [k \in DOMAIN ConvLayers(t) |-> ConvLayers(t)[k][1]]
                            \o <<"permute">>
                            \o [k \in DOMAIN AfterLayers(t) |-> AfterLayers(t)[k][1]],
             fc_orders |-> [i \in DOMAIN heads |-> [k \in DOMAIN heads[i] |-> heads[i][k][1]]],
             layers |-> [name \in {attrs[k][1] : k \in DOMAIN attrs} |-> attrs[last(name)][2]],
             training |-> TRUE,
             state_dict |-> "initial"]

\* a local variable no statement has assigned yet
Unbound == [bound |-> FALSE, steps |-> <<>>, shape |-> <<>>]

\* x.permute(dims): dims counts the dimensions from 0
permute(shape, dims) == [k \in DOMAIN dims |-> shape[dims[k] + 1]]

\* the size nn.Conv2d gives an axis of the given size
conv_out(size, kernel, stride, padding) == ((size + 2 * padding - kernel) \div stride) + 1

\* getattr(self, step_name)(x); x.status tells whether a step before has
\* raised.  The convolutions are given tensors of five dimensions: the
\* wrapper folds the first two into one for nn.Conv2d and unfolds the result
\* (TimeDistributed.forward), and TimeDistributedFlatten joins the last three
Apply(m, step_name, x) ==
    LET layer == m.layers[step_name]
        s == x.shape
        result(shape) == [status |-> "ok", steps |-> Append(x.steps, step_name),
                          shape |-> shape]
        raised == [x EXCEPT !.status = "RuntimeError"]
    IN  IF x.status # "ok" THEN x
        ELSE IF layer.type = "Linear"
        THEN IF Last(s) = layer.in_features
             THEN result(SubSeq(s, 1, Len(s) - 1) \o <<layer.out_features>>)
             ELSE raised
        ELSE IF layer.type = "Conv2d"
        THEN IF \/ s[3] # layer.in_features
                \/ s[4] + 2 * layer.padding[1] < layer.kernel_size[1]
                \/ s[5] + 2 * layer.padding[2] < layer.kernel_size[2]
             THEN raised
             ELSE result(<<s[1], s[2], layer.out_features,
                           conv_out(s[4], layer.kernel_size[1], layer.stride[1],
                                    layer.padding[1]),
                           conv_out(s[5], layer.kernel_size[2], layer.stride[2],
                                    layer.padding[2])>>)
        ELSE IF layer.type = "Lambda"
        THEN result(permute(s, <<0, 4, 2, 3, 1>>))
        ELSE IF layer.type = "TimeDistributedFlatten"
        THEN result(<<s[1], s[2], s[3] * s[4] * s[5]>>)
        ELSE result(s)

\* self.dropout(x): nn.Dropout(p=0.0) passes every value on as it is
dropout(x) == x

\* torch.squeeze(x, 1)
squeeze1(x) ==
    [x EXCEPT !.shape = IF @[2] = 1 THEN <<@[1]>> \o SubSeq(@, 3, Len(@)) ELSE @]

\* x.squeeze(): the shape without its dimensions of size 1
squeeze(shape) == SelectSeq(shape, LAMBDA d : d # 1)

\* lines 151-154: the steps of conv_order, each followed by the dropout
RECURSIVE ConvLoop(_, _, _)
ConvLoop(m, step_names, x) ==
    IF step_names = <<>> THEN x
    ELSE ConvLoop(m, Tail(step_names), dropout(Apply(m, Head(step_names), x)))

\* lines 161-164: the steps fc_order[1::] of one head; ffc is the local of
\* forward, whatever it held before
RECURSIVE StepLoop(_, _, _, _)
StepLoop(m, step_names, x, ffc) ==
    IF step_names = <<>> \/ x.status # "ok" THEN [x |-> x, ffc |-> ffc]
    ELSE StepLoop(m, Tail(step_names), Apply(m, Head(step_names), dropout(x)),
                  [bound |-> TRUE, steps |-> x.steps, shape |-> x.shape])

\* lines 159-166 putting each head's prediction in front of the earlier ones
RECURSIVE HeadLoopPrepend(_, _, _, _, _, _)
HeadLoopPrepend(m, fc_orders, flat_x, ffc, outputs, final_fully_connected) ==
    IF fc_orders = <<>>
    THEN [status |-> "ok", outputs |-> outputs,
          final_fully_connected |-> final_fully_connected]
    ELSE LET fc_order == Head(fc_orders)
             r == StepLoop(m, Tail(fc_order), Apply(m, fc_order[1], flat_x), ffc)
         IN  IF r.x.status # "ok"
             THEN [status |-> r.x.status, outputs |-> outputs,
                   final_fully_connected |-> final_fully_connected]
             ELSE IF ~r.ffc.bound
             THEN [status |-> "UnboundLocalError", outputs |-> outputs,
                   final_fully_connected |-> final_fully_connected]
             ELSE HeadLoopPrepend(m, Tail(fc_orders), flat_x, r.ffc,
                                  <<squeeze1(r.x)>> \o outputs,
                                  Append(final_fully_connected, r.ffc))

\* lines 159-166: the loop over the heads
RECURSIVE HeadLoop(_, _, _, _, _, _)
HeadLoop(m, fc_orders, flat_x, ffc, outputs, final_fully_connected) ==
    IF fc_orders = <<>>
    THEN [status |-> "ok", outputs |-> outputs,
          final_fully_connected |-> final_fully_connected]
    ELSE LET fc_order == Head(fc_orders)
             r == StepLoop(m, Tail(fc_order), Apply(m, fc_order[1], flat_x), ffc)
         IN  IF r.x.status # "ok"
             THEN [status |-> r.x.status, outputs |-> outputs,
                   final_fully_connected |-> final_fully_connected]
             ELSE IF ~r.ffc.bound
             THEN [status |-> "UnboundLocalError", outputs |-> outputs,
                   final_fully_connected |-> final_fully_connected]
             ELSE HeadLoop(m, Tail(fc_orders), flat_x, r.ffc,
                           Append(outputs, squeeze1(r.x)),
                           Append(final_fully_connected, r.ffc))

\* the sum of a[k] * b[k]
RECURSIVE Dot(_, _)
Dot(a, b) == IF a = <<>> THEN 0 ELSE Head(a) * Head(b) + Dot(Tail(a), Tail(b))

\* the least r >= from with r * r >= n
RECURSIVE Root(_, _)
Root(n, from) == IF from * from >= n THEN from ELSE Root(n, from + 1)

\* the norm of a vector whose norm is an integer
Norm(v) == Root(Dot(v, v), 0)

\* CosineSimilarity of two vectors, in fifths
Cos5(a, b) ==
    LET norms == Norm(a) * Norm(b)
    IN  IF norms = 0 THEN 0 ELSE (5 * Dot(a, b)) \div norms

\* torch.sum(torch.abs(self.sim(a.squeeze(), b.squeeze()))) for two heads'
\* features, each given by its lines along dimension 1: one cosine per line
RECURSIVE SumAbsSim(_, _, _)
SumAbsSim(a, b, row) ==
    IF row = 0 THEN 0 ELSE Abs(Cos5(a[row], b[row])) + SumAbsSim(a, b, row - 1)

\* lines 170-175 with j running over every head: each pair comes up twice
RECURSIVE SimLoopBothOrders(_, _, _, _)
SimLoopBothOrders(values, i, j, sim) ==
    IF i > Len(values) THEN sim
    ELSE IF j > Len(values) THEN SimLoopBothOrders(values, i + 1, 1, sim)
    ELSE SimLoopBothOrders(values, i, j + 1,
             IF i # j
             THEN sim + SumAbsSim(values[i], values[j], Len(values[i]))
             ELSE sim)

\* lines 170-175: the loops over i and over j in range(i + 1, len)
RECURSIVE SimLoop(_, _, _, _)
SimLoop(values, i, j, sim) ==
    IF i > Len(values) THEN sim
    ELSE IF j > Len(values) THEN SimLoop(values, i + 1, i + 2, sim)
    ELSE SimLoop(values, i, j + 1,
             IF i # j
             THEN sim + SumAbsSim(values[i], values[j], Len(values[i]))
             ELSE sim)

\* forward has not been called
NoLogits ==
    [pc |-> "idle", return_co_sim |-> FALSE, batch |-> 0, outputs |-> <<>>,
     final_fully_connected |-> <<>>, values |-> <<>>, sim |-> None]

\* forward lines 149-166 on a batch of the given number of samples of the
\* shape input_shape: the trunk, then the heads
Heads(m, batch) ==
    LET x == [status |-> "ok", steps |-> <<>>,
              shape |-> permute(<<batch>> \o m.input_shape, <<0, 1, 4, 2, 3>>)]
        flat_x == Apply(m, "flatten",
                        ConvLoop(m, m.conv_order, Apply(m, "gaussian_noise", x)))
    IN  IF flat_x.status # "ok"
        THEN [status |-> flat_x.status, outputs |-> <<>>, final_fully_connected |-> <<>>]
        ELSE HeadLoop(m, m.fc_orders, flat_x, Unbound, <<>>, <<>>)

\* forward lines 167-177: what is returned once the heads h are computed;
\* values[i] are the numbers the i-th head's features hold.
\* CosineSimilarity(dim=1) raises IndexError when the squeezed features have
\* fewer than two dimensions
Results(h, batch, return_co_sim, values) ==
    LET called == [NoLogits EXCEPT !.return_co_sim = return_co_sim, !.batch = batch]
    IN  IF h.status # "ok" THEN [called EXCEPT !.pc = h.status]
        ELSE IF ~return_co_sim
        THEN [called EXCEPT !.pc = "returned", !.outputs = h.outputs,
                            !.final_fully_connected = h.final_fully_connected]
        ELSE IF /\ Len(h.final_fully_connected) >= 2
                /\ Len(squeeze(h.final_fully_connected[1].shape)) < 2
        THEN [called EXCEPT !.pc = "IndexError"]
        ELSE [called EXCEPT !.pc = "returned", !.outputs = h.outputs,
                            !.final_fully_connected = h.final_fully_connected,
                            !.values = values,
                            !.sim = SimLoop(values, 1, 2, 0)]

\* Standard_Decoder.forward(x, return_co_sim)
forward(m, batch, return_co_sim, values) ==
    Results(Heads(m, batch), batch, return_co_sim, values)

\* driver script line 84: model = model_function(train_dataset)
ConstructDecoder ==
    /\ model.pc = "none"
    /\ model' = Standard_Decoder(tg)
    /\ UNCHANGED <<hdf5_file, opts, train_half, exp_indices, cv_splits, pc, view, call,
                   workers, tg, logits>>

\* the checkpoints read from MODEL_PATH: saved from a decoder of this
\* configuration, or from one with the same trunk and other heads
Checkpoints == {"same", "other_heads"}

\* driver script line 85: model.load_state_dict(torch.load(MODEL_PATH)).
\* Every parameter the checkpoint has an entry of the right shape for is
\* overwritten; entries missing or unexpected make the call raise after that
LoadStateDict(checkpoint) ==
    /\ model.pc = "built"
    /\ model.state_dict = "initial"
    /\ logits.pc = "idle"
    /\ LET found(layer) == layer.weight # "absent"
                           /\ (checkpoint = "same" \/ layer.type # "Linear")
       IN  model' = [model EXCEPT
                !.pc = IF checkpoint = "same" THEN @ ELSE "RuntimeError",
                !.state_dict = "loaded",
                !.layers = [name \in DOMAIN @ |->
                              IF found(@[name])
                              THEN [@[name] EXCEPT !.weight = "loaded", !.bias = "loaded"]
                              ELSE @[name]]]
    /\ UNCHANGED <<hdf5_file, opts, train_half, exp_indices, cv_splits, pc, view, call,
                   workers, tg, logits>>

\* driver script line 86: model.eval() switches the training mode off
Eval ==
    /\ model.pc = "built"
    /\ model.state_dict = "loaded"
    /\ model.training
    /\ logits.pc = "idle"
    /\ model' = [model EXCEPT !.training = FALSE]
    /\ UNCHANGED <<hdf5_file, opts, train_half, exp_indices, cv_splits, pc, view, call,
                   workers, tg, logits>>

\* the feature vectors of the model's inputs
Vectors == {<<1, 0>>, <<3, 4>>, <<0, -1>>}

\* the lines of the given length a head's features are made of: the feature
\* vectors, and for longer lines two of them followed by zeros
Lines(length) ==
    IF length = 2 THEN Vectors
    ELSE { v \o [k \in 1..(length - 2) |-> 0] : v \in {<<3, 4>>, <<0, -1>>} }

\* the number of lines along dimension 1 of a tensor of the given shape
RECURSIVE Product(_)
Product(shape) == IF shape = <<>> THEN 1 ELSE Head(shape) * Product(Tail(shape))

\* model(batch) or model(batch, return_co_sim): a call of forward on a batch
\* that makes the heads' features hold some values; these matter when the
\* similarity of two heads is computed.  forward writes no attribute of the
\* decoder, so a later call behaves as the first
Forward(batch, return_co_sim) ==
    /\ model.pc = "built"
    /\ logits.pc = "idle"
    /\ LET h == Heads(model, batch)
           s == IF h.status = "ok" THEN squeeze(h.final_fully_connected[1].shape) ELSE <<>>
       IN  IF return_co_sim /\ Len(model.fc_orders) >= 2 /\ Len(s) >= 2
           THEN \E values \in [DOMAIN model.fc_orders ->
                                  [1..(Product(s) \div s[2]) -> Lines(s[2])]] :
                    logits' = Results(h, batch, return_co_sim, values)
           ELSE logits' = Results(h, batch, return_co_sim,
                                  [i \in DOMAIN model.fc_orders |-> <<>>])
    /\ UNCHANGED <<hdf5_file, opts, train_half, exp_indices, cv_splits, pc, view, call,
                   workers, tg, model>>

DecoderNext ==
    \/ ConstructDecoder
    \/ \E checkpoint \in Checkpoints : LoadStateDict(checkpoint)
    \/ Eval
    \/ \E batch \in 1..MaxBatch, return_co_sim \in BOOLEAN : Forward(batch, return_co_sim)

\* the option object a decoder is built from: the attributes the constructor
\* reads, for a recording of one frequency band
Tg(channels, timesteps, keys, num_convs_tsr, kernel_size, num_dense) ==
    [input_shape |-> <<channels, timesteps, 1, 1>>,
     loss_functions |-> keys,
     outputs |-> [i \in DOMAIN keys |->
                    [shape |-> <<timesteps + 2, IF keys[i] = "position" THEN 2 ELSE 1>>]],
     num_convs_tsr |-> num_convs_tsr, filter_size |-> 64, kernel_size |-> kernel_size,
     act_conv |-> "ELU",
     num_dense |-> num_dense, num_units_dense |-> 2, act_fc |-> "ELU",
     dropout_ratio |-> 0]

NoTg == Tg(0, 0, <<>>, 0, 0, 0)

-----------------------------------------------------------------------------
(* Configurations: the inputs of a run *)

TargetNames == {"position", "direction", "head_direction", "speed"}

\* every dataset of the file's outputs group the runs ask for
OutputNames == TargetNames \cup {"heading"}

Keywords == {"top", "bottom", "inside", "outside", "left", "right"}

\* position labels: PA is top, inside, left; PB is bottom, outside, right
PA == <<CentreX, CentreY>>
PB == <<LeftThreshold, TopThreshold>>

\* a recording moving one unit per step along +x, along +y, and a zigzag
LineX(T) == [t \in 0..(T - 1) |-> <<t * Unit, 0>>]
LineY(T) == [t \in 0..(T - 1) |-> <<0, t * Unit>>]
ZigZag(T) == [t \in 0..(T - 1) |-> <<t * Unit, (t % 2) * 3 * Unit>>]

Ramp(T) == [t \in 0..(T - 1) |-> t]

Config(T, mt, ncv, sh, rb, keys, kw, position, stored, wavelets, nw) ==
    [T |-> T, model_timesteps |-> mt, num_cvs |-> ncv, shuffle |-> sh,
     random_batches |-> rb, loss_functions |-> keys, train_half |-> kw,
     position |-> position, stored |-> stored, wavelets |-> wavelets, nworkers |-> nw]

\* the splits: every recording length, window length and block count
SplitConfigs ==
    { Config(T, mt, ncv, FALSE, FALSE, <<"position">>, "None",
             LineX(T), Ramp(T), Ramp(T), 1) :
        T \in 3..MaxT, mt \in {1, 2, 4}, ncv \in 2..MaxT }

\* the region filters: every recording over {PA, PB}, keyword and sampling mode
FilterConfigs ==
    { Config(RecT, 1, 2, sh, rb, <<"position">>, kw, position, Ramp(RecT), Ramp(RecT), 1) :
        sh \in BOOLEAN, rb \in BOOLEAN, kw \in Keywords \cup {"None"},
        position \in [0..(RecT - 1) -> {PA, PB}] }

\* target lists: the known names in every order, and lists with an unknown name
TargetLists ==
    { keys \in UNION { [1..n -> TargetNames] : n \in 1..4 } :
        \A i, j \in DOMAIN keys : i # j => keys[i] # keys[j] }
    \cup { <<"heading">>, <<"position", "heading">>, <<"heading", "position">>,
           <<"speed", "heading">>, <<"position", "speed", "heading">> }

\* the labels: every target list on recordings with known positions
LabelConfigs ==
    { Config(LabT, mt, 2, FALSE, FALSE, keys, kw, position, Ramp(LabT), Ramp(LabT), 1) :
        mt \in {1, 2}, keys \in TargetLists, kw \in {"None", "bottom", "diag"},
        position \in {LineX(LabT), LineY(LabT), ZigZag(LabT)} }

\* every keyword, recognised or not, on a recording that visits both regions
KeywordConfigs ==
    { Config(LabT, 1, 2, TRUE, rb, <<"position">>, kw,
             [t \in 0..(LabT - 1) |-> IF t % 2 = 0 THEN PB ELSE PA],
             Ramp(LabT), Ramp(LabT), 1) :
        rb \in BOOLEAN, kw \in Keywords \cup {"None", "diag", "Top"} }

\* the statistics: every recording over a few values, two block counts
StatsConfigs ==
    { Config(RecT, 1, ncv, FALSE, FALSE, <<"position">>, "None", LineX(RecT),
             Ramp(RecT), wavelets, 1) :
        ncv \in {2, 3}, wavelets \in [0..(RecT - 1) -> {0, 1, 4}] }

WellFormed(cfg) ==
    /\ cfg.T - cfg.model_timesteps >= 2
    /\ cfg.num_cvs \in 2..(cfg.T - cfg.model_timesteps)

\* The two ways into the program.  entry = "driver": the script has read its
\* options and switched shuffle off (line 47) and is about to split; it calls
\* create_train_and_test_datasets without the train_half keyword.  entry =
\* "caller": create_train_and_test_datasets is called with options that
\* already hold a contiguous split of the valid range, in the sampling modes
\* and with the keyword the caller chose.
Entries == {"driver", "caller"}

InitWith(configs, entries) ==
    \E cfg \in configs, entry \in entries :
        LET e == arange(0, cfg.T - cfg.model_timesteps)
            s == array_split(e, cfg.num_cvs)
            at_split == entry = "driver"
        IN  /\ WellFormed(cfg)
            /\ hdf5_file = [wavelets |-> cfg.wavelets,
                            outputs |-> [k \in OutputNames |->
                                            IF k = "position" THEN cfg.position
                                            ELSE cfg.stored]]
            /\ opts = [model_timesteps |-> cfg.model_timesteps, num_cvs |-> cfg.num_cvs,
                       shuffle |-> IF at_split THEN FALSE ELSE cfg.shuffle,
                       random_batches |-> cfg.random_batches,
                       loss_functions |-> cfg.loss_functions,
                       training_indices |-> IF at_split THEN <<>> ELSE TrainingOf(s),
                       testing_indices |-> IF at_split THEN <<>> ELSE TestingOf(s)]
            /\ train_half = IF at_split THEN "None" ELSE cfg.train_half
            /\ exp_indices = IF at_split THEN <<>> ELSE e
            /\ cv_splits = IF at_split THEN <<>> ELSE s
            /\ pc = IF at_split THEN "split" ELSE "create"
            /\ view = <<>>
            /\ workers = 1..cfg.nworkers
            /\ call = [c \in Callers |-> NoCall]
            /\ tg = NoTg
            /\ model = NoModel
            /\ logits = NoLogits

Init == InitWith(FilterConfigs, Entries)

Spec == Init /\ [][Next]_vars

SplitInit == InitWith(SplitConfigs, {"driver"})

SplitSpec == SplitInit /\ [][Next]_vars

LabelInit == InitWith(LabelConfigs \cup KeywordConfigs, Entries)

LabelSpec == LabelInit /\ [][Next]_vars

\* retries: two keywords on every recording over {PA, PB}, every sampling mode
RetryConfigs ==
    { Config(LabT, 1, 2, sh, rb, <<"position">>, kw, position, Ramp(LabT), Ramp(LabT), 1) :
        sh \in BOOLEAN, rb \in BOOLEAN, kw \in {"top", "right"},
        position \in [0..(LabT - 1) -> {PA, PB}] }

FairInit == InitWith(RetryConfigs, Entries)

\* the draw of np.random.choice that decides the window of c's call is v
Draw(c, v) ==
    \E choice \in 0..MaxT, start_index \in 0..MaxT :
        /\ Resolve(c, choice, start_index)
        /\ v = (IF view[call[c].view].random_batches THEN start_index ELSE choice)

\* every started step of the program is eventually taken, and a random draw
\* that is made again and again yields each of its values again and again
Fairness ==
    /\ WF_vars(Split)
    /\ WF_vars(ConstructTraining)
    /\ WF_vars(ConstructTesting)
    /\ WF_vars(Created)
    /\ \A c \in Callers :
        /\ WF_vars(Output(c))
        /\ WF_vars(Return(c))
        /\ \A v \in 0..(LabT - 1) : SF_vars(Draw(c, v))

FairSpec == FairInit /\ [][Next]_vars /\ Fairness

StatsInit == InitWith(StatsConfigs, {"driver"})

StatsSpec == StatsInit /\ [][Next]_vars

\* several batch-loading workers on deterministic views
WorkerConfigs ==
    { Config(LabT, mt, 2, FALSE, FALSE, keys, "None", position, Ramp(LabT), Ramp(LabT),
             MaxWorkers) :
        mt \in {1, 2}, keys \in {<<"position">>, <<"position", "speed">>},
        position \in {LineX(LabT), ZigZag(LabT)} }

WorkerInit == InitWith(WorkerConfigs, {"driver"})

WorkerSpec == WorkerInit /\ [][Next]_vars

\* the windows: every sampling mode on recordings whose rows all differ
WindowConfigs ==
    { Config(RecT, mt, 2, sh, rb, keys, "None", ZigZag(RecT), Ramp(RecT), Ramp(RecT), 1) :
        mt \in {1, 2}, sh \in BOOLEAN, rb \in BOOLEAN,
        keys \in {<<"position">>, <<"position", "direction">>} }

WindowInit == InitWith(WindowConfigs, Entries)

WindowSpec == WindowInit /\ [][Next]_vars

\* window lengths: the short ones and the powers of two up to 1024
Lengths == (1..MaxLen) \cup {2^k : k \in 4..10}

\* target lists of the heads: up to two known names in every order
HeadLists ==
    { keys \in UNION { [1..n -> TargetNames] : n \in 1..2 } :
        \A i, j \in DOMAIN keys : i # j => keys[i] # keys[j] }

\* the decoders: every window length, channel count, trunk depth and kernel
\* size with one head; window lengths around 2^29 without convolutions; on
\* trunks whose output has the size the heads are built for: every list of
\* up to two heads, two heads of every depth, and three heads; two heads on a
\* trunk that keeps three steps along dimension 1
DecoderConfigs ==
    { Tg(channels, timesteps, <<"position">>, num_convs_tsr, kernel_size, 1) :
        channels \in 1..MaxChannels, timesteps \in Lengths, num_convs_tsr \in 0..3,
        kernel_size \in {1, 3, 5} }
    \cup
    { Tg(1, 2^k, <<"position">>, 0, 3, 1) : k \in {28, 29, 30} }
    \cup
    { Tg(2, 4, keys, 1, 3, num_dense) : keys \in HeadLists, num_dense \in {0, 1} }
    \cup
    { Tg(1, 64, keys, 3, 3, num_dense) :
        keys \in {<<"position">>, <<"position", "speed">>, <<"direction", "position">>},
        num_dense \in 0..MaxDense }
    \cup
    { Tg(1, 64, <<"speed", "position", "direction">>, 3, 3, num_dense) :
        num_dense \in {0, MaxDense} }
    \cup
    { Tg(1, 1, <<"position", "speed">>, 1, 1, 1) }

DecoderInit ==
    /\ hdf5_file = <<>>
    /\ opts = <<>>
    /\ train_half = "None"
    /\ exp_indices = <<>>
    /\ cv_splits = <<>>
    /\ pc = "model"
    /\ view = <<>>
    /\ workers = {}
    /\ call = [c \in Callers |-> NoCall]
    /\ tg \in DecoderConfigs
    /\ model = NoModel
    /\ logits = NoLogits

DecoderSpec == DecoderInit /\ [][DecoderNext]_vars

-----------------------------------------------------------------------------
(* Properties *)

RecordingLength == Cardinality(DOMAIN hdf5_file.wavelets)

\* valid_range = [0, T - model_timesteps)
ValidRange == [k \in 1..(RecordingLength - opts.model_timesteps) |-> k - 1]

Consecutive(s) == \A k \in 1..(Len(s) - 1) : s[k + 1] = s[k] + 1

\* C1: once the driver has split the valid range (2 <= num_cvs <= its
\* length), there are num_cvs contiguous blocks, the training Index Set (all
\* blocks but the last) and the testing Index Set (the last block) are both
\* non-empty and disjoint, and training followed by testing is exactly the
\* valid range 0, 1, ..., T - model_timesteps - 1, each index once.
C1_ContiguousPartition ==
    pc # "split" =>
        LET tr == opts.training_indices
            te == opts.testing_indices
        IN  /\ exp_indices = ValidRange
            /\ Len(cv_splits) = opts.num_cvs
            /\ \A k \in DOMAIN cv_splits : Consecutive(cv_splits[k])
            /\ te = cv_splits[Len(cv_splits)]
            /\ tr # <<>>
            /\ te # <<>>
            /\ Range(tr) \cap Range(te) = {}
            /\ tr \o te = ValidRange
            /\ Cardinality(Range(tr \o te)) = Len(tr) + Len(te)

\* C1 witness: five valid indices split into three blocks of unequal size,
\* both views built on them
C1_Witness ==
    /\ pc = "ready"
    /\ Len(exp_indices) = 5
    /\ opts.num_cvs = 3
    /\ view["train"].cv_indices = <<0, 1, 2, 3>>
    /\ view["test"].cv_indices = <<4>>

\* C2: on a view with a region filter and position as first target, a sample
\* that __getitem__ is returning or has returned (the dummy sample of the
\* constructor included) carries the position of its own window's last time
\* step, and the view's filter accepts that position.
C2_ReturnedSampleAccepted ==
    \A c \in Callers :
        call[c].pc \in {"input", "done"} =>
            LET self == view[call[c].view]
            IN  (self.train_half \in Keywords /\ self.loss_functions[1] = "position") =>
                    /\ call[c].output_sample[1]
                          = self.outputs["position"][Last(call[c].cut_range)]
                    /\ accept_output(call[c].output_sample, self.train_half) = "accept"

\* C2 witness: the constructor's dummy call and a worker's call have both
\* returned a sample after at least one rejected candidate
C2_Witness ==
    /\ pc = "ready"
    /\ train_half \in Keywords
    /\ \E w \in workers : call[w].pc = "done" /\ call[w].retried /\ call[w].view = "test"
    /\ view["train"].prev_ind # view["train"].cv_indices[1]

\* position labels around every threshold of the filters
LabelGrid ==
    { <<x, y>> :
        x \in {0 - Unit, 0, CentreX, CentreX + Radius - 1, CentreX + Radius,
               LeftThreshold - 1, LeftThreshold, LeftThreshold + Unit},
        y \in {0 - Unit, 0, TopThreshold - 1, TopThreshold, TopThreshold + 1,
               CentreY - Radius, CentreY - Radius + 1, CentreY,
               CentreY + Radius - 1, CentreY + Radius} }

PairedKeywords ==
    {<<"top", "bottom">>, <<"bottom", "top">>, <<"inside", "outside">>,
     <<"outside", "inside">>, <<"left", "right">>, <<"right", "left">>}

Accepted(p, keyword) == accept_output(<<p>>, keyword) = "accept"

\* C4: once both views exist, the training view filters by the keyword given
\* and the testing view by its pair, and every position label is accepted by
\* exactly one of the two; top accepts exactly second coordinate > 0.1 and
\* bottom its complement; with no keyword both views accept every label.
C4_FilterComplementarity ==
    "test" \in DOMAIN view =>
        LET k == view["train"].train_half
            kn == view["test"].train_half
        IN  /\ k = train_half
            /\ k \in Keywords =>
                 /\ <<k, kn>> \in PairedKeywords
                 /\ \A p \in LabelGrid : Accepted(p, k) # Accepted(p, kn)
            /\ k = "top" =>
                 \A p \in LabelGrid :
                    /\ Accepted(p, k) = (p[2] > TopThreshold)
                    /\ Accepted(p, kn) = (p[2] <= TopThreshold)
            /\ k = "None" =>
                 /\ kn = "None"
                 /\ \A p \in LabelGrid : Accepted(p, k) /\ Accepted(p, kn)

\* C4 witness: views paired as inside / outside have been created
C4_Witness ==
    /\ pc = "ready"
    /\ view["train"].train_half = "inside"
    /\ view["test"].train_half = "outside"

\* C10 as claimed: once both views are constructed, no step changes any
\* field of a view.
C10_NoFieldChanges == [][pc = "ready" => view' = view]_vars

Except_prev_ind(v) == [v EXCEPT !.prev_ind = None]

\* C10 amended: once both views are constructed, every step leaves every
\* field of both views unchanged except prev_ind, and prev_ind changes only
\* when a call returns, to the index that call resolved.
C10_OnlyPrevIndChanges ==
    [][pc = "ready" =>
        /\ DOMAIN view' = DOMAIN view
        /\ \A n \in DOMAIN view :
            /\ Except_prev_ind(view'[n]) = Except_prev_ind(view[n])
            /\ view'[n].prev_ind # view[n].prev_ind =>
                 \E c \in Callers :
                    /\ call[c].pc = "input"
                    /\ call'[c].pc = "done"
                    /\ call[c].view = n
                    /\ view'[n].prev_ind = call[c].idx]_vars

\* C10 witness: after construction a worker's retried call has returned and
\* left its index in prev_ind
C10_Witness ==
    /\ pc = "ready"
    /\ \E w \in workers :
        /\ call[w].pc = "done"
        /\ call[w].retried
        /\ view[call[w].view].prev_ind = call[w].idx
        /\ call[w].idx # view[call[w].view].cv_indices[1]

\* C9: the recordings that agree with this one on the rows the training Index
\* Set selects
SameTrainingRows ==
    { w \in [DOMAIN hdf5_file.wavelets -> {0, 1, 4}] :
        \A k \in DOMAIN opts.training_indices :
            w[opts.training_indices[k]] = hdf5_file.wavelets[opts.training_indices[k]] }

OtherTestingIndices ==
    { opts.testing_indices, opts.training_indices, exp_indices, <<0>>,
      <<RecordingLength - 1>> }

\* C9: once both views exist their est_mean and est_std are equal, and when
\* create_train_and_test_datasets has returned they are the values the
\* constructor yields for any other testing Index Set and any recording that
\* agrees on the rows the training Index Set selects.
C9_TrainingOnlyStatistics ==
    "test" \in DOMAIN view =>
        /\ view["test"].est_mean = view["train"].est_mean
        /\ view["test"].est_std = view["train"].est_std
        /\ (pc = "ready" /\ \A c \in Callers : call[c].pc = "idle") =>
             \A w \in SameTrainingRows, te \in OtherTestingIndices, training \in BOOLEAN :
                LET other == WaveletDataset([opts EXCEPT !.testing_indices = te],
                                            [hdf5_file EXCEPT !.wavelets = w],
                                            training, "None")
                IN  /\ other.est_mean = view["train"].est_mean
                    /\ other.est_std = view["train"].est_std

\* C9 witness: both views are built on a recording whose rows outside the
\* training Index Set would move the median, with a non-zero est_std
C9_Witness ==
    /\ pc = "ready"
    /\ view["test"].est_std > 0
    /\ view["test"].est_mean
          # Median2([k \in 1..RecordingLength |-> hdf5_file.wavelets[k - 1]])
    /\ view["test"].est_mean
          # Median2(FancyIndex(hdf5_file.wavelets, opts.testing_indices))

ValidTargets == \A i \in DOMAIN opts.loss_functions : opts.loss_functions[i] \in TargetNames

ValidKeyword == train_half \in Keywords \cup {"None"}

\* C5: with an unknown region-filter keyword or an unknown target name the
\* process ends inside the constructor of the first view, at the first
\* candidate of its dummy sample: no constructor returns, no view gets its
\* input_shape, and no sample is returned to anyone; with a recognised
\* keyword (or none) and known targets nothing ever ends in the fatal
\* configuration error.
C5_ConfigurationErrorsFatal ==
    /\ ~(ValidTargets /\ ValidKeyword) =>
         /\ pc \in {"split", "create", "dummy_train"}
         /\ DOMAIN view \subseteq {"train"}
         /\ \A n \in DOMAIN view : "input_shape" \notin DOMAIN view[n]
         /\ \A c \in Callers : call[c].pc \notin {"input", "done"}
         /\ call[Main].pc \in {"idle", "resolve", "output", "exit", "UnboundLocalError"}
         /\ ~call[Main].retried
    /\ (ValidTargets /\ ValidKeyword) => \A c \in Callers : call[c].pc # "exit"

\* C5 witness: an unknown keyword with known targets has ended the process in
\* the training view's constructor
C5_Witness ==
    /\ pc = "dummy_train"
    /\ call[Main].pc = "exit"
    /\ ValidTargets
    /\ ~ValidKeyword

\* C6 as claimed: for every non-empty list of known targets, in any order,
\* __getitem__ never fails and the sample it returns has one label per target.
C6_AnyTargetSubset ==
    (ValidTargets /\ train_half = "None") =>
        \A c \in Callers :
            /\ call[c].pc # "UnboundLocalError"
            /\ call[c].pc \in {"input", "done"} =>
                 Len(call[c].output_sample) = Len(opts.loss_functions)

\* C7 as claimed: with targets (position, speed) in deterministic mode the
\* sample for start index s has the position at time s + sample_size - 1 and
\* the distance between the positions at times s + sample_size - 1 and
\* s + sample_size - 2 as labels; on a recording advancing one unit per step
\* along a line the speed label is 1.
C7_SpeedAndPositionLabels ==
    \A c \in Callers :
        (/\ call[c].pc \in {"input", "done"}
         /\ opts.loss_functions = <<"position", "speed">>
         /\ ~opts.shuffle
         /\ ~opts.random_batches) =>
            LET self == view[call[c].view]
                position == hdf5_file.outputs["position"]
                t == self.cv_indices[call[c].og_idx + 1] + self.sample_size - 1
            IN  /\ call[c].output_sample[1] = position[t]
                /\ position \in {LineX(RecordingLength), LineY(RecordingLength)} =>
                     call[c].output_sample[2] = Unit * Unit
                /\ t - 1 \in DOMAIN position
                /\ call[c].output_sample[2] = getspeed(position[t], position[t - 1])

\* C8: other stored values for the direction, head_direction and speed channels
StoredAlternatives ==
    LET T == RecordingLength
        arrays == {[t \in 0..(T - 1) |-> t], [t \in 0..(T - 1) |-> 7],
                   [t \in 0..(T - 1) |-> 0 - t * t]}
    IN  [TargetNames \ {"position"} -> arrays]

\* C8: the labels of a sample are the labels get_output_sample derives for
\* the same window from any recording with the same position channel and
\* other stored direction, head_direction and speed channels.
C8_StoredChannelsIgnored ==
    \A c \in Callers :
        call[c].pc \in {"input", "done"} =>
            LET self == view[call[c].view]
            IN  \A alt \in StoredAlternatives :
                    get_output_sample(
                        [k \in DOMAIN self.outputs |->
                            IF k = "position" THEN self.outputs[k] ELSE alt[k]],
                        self.loss_functions, call[c].cut_range, call[c].past_cut_range)
                    = [status |-> "ok", sample |-> call[c].output_sample]

\* C8 witness: a worker got a sample with all four labels from a recording
\* that is not a straight line
C8_Witness ==
    \E w \in workers :
        /\ call[w].pc = "done"
        /\ Len(call[w].output_sample) = 4
        /\ opts.loss_functions[1] = "position"
        /\ hdf5_file.outputs["position"] = ZigZag(RecordingLength)
        /\ call[w].og_idx > 0

\* the position label of the window that starts at index s of the view self
PositionLabel(self, s) == self.outputs["position"][s + self.model_timesteps - 1]

\* some index of the Index Set of the view of c's call has an accepted label
SomeCandidateAccepted(c) ==
    LET self == view[call[c].view]
    IN  \E k \in DOMAIN self.cv_indices :
            accept_output(<<PositionLabel(self, self.cv_indices[k])>>, self.train_half)
                = "accept"

\* C3 as claimed: a call of __getitem__ on a view whose Index Set holds an
\* index with an accepted position label eventually returns, in every
\* sampling mode.
C3_RetryReturns ==
    \A c \in Callers :
        (call[c].pc = "resolve" /\ SomeCandidateAccepted(c)) ~> (call[c].pc = "done")

\* the sample __getitem__(i) returns on the view self when no other call runs:
\* the window at cv_indices[i] and its labels
SampleAlone(self, i) ==
    LET s == self.cv_indices[i + 1]
    IN  [input_sample |-> get_input_sample(self, self.wavelets,
                                           arange(s, s + self.sample_size)),
         output_sample |-> get_output_sample(self.outputs, self.loss_functions,
                                             arange(s, s + self.sample_size),
                                             arange(s - 1, s + self.sample_size - 1)).sample]

\* C11: with shuffle and random_batches off, whatever the interleaving of the
\* workers' calls on the views, a call that has returned holds exactly the
\* sample the same call returns alone: the window at cv_indices[idx] and its
\* labels.
C11_WorkersIndependent ==
    \A w \in workers :
        (pc = "ready" /\ call[w].pc = "done"
            /\ ~view[call[w].view].shuffle /\ ~view[call[w].view].random_batches)
        => /\ call[w].input_sample = SampleAlone(view[call[w].view], call[w].og_idx).input_sample
           /\ call[w].output_sample = SampleAlone(view[call[w].view], call[w].og_idx).output_sample

\* C11 witness: two workers hold samples of different items of the same view,
\* and the second worker's call returned first
C11_Witness ==
    /\ pc = "ready"
    /\ call[1].pc = "done" /\ call[2].pc = "done"
    /\ call[1].view = call[2].view
    /\ call[1].og_idx # call[2].og_idx
    /\ view[call[1].view].prev_ind = call[1].idx
    /\ call[1].input_sample # call[2].input_sample

\* the normalised rows s .. s + model_timesteps - 1 of the recording
WindowInput(self, s) ==
    [k \in 1..self.model_timesteps |->
        <<4 * self.wavelets[s + k - 1] - 2 * self.est_mean, self.est_std>>]

\* C16: in every sampling mode a returned sample's input and its position
\* label are those of one window [s, s + sample_size) of sample_size =
\* model_timesteps steps with s in the view's own Index Set; with shuffle and
\* random_batches off s is the idx-th element of the Index Set; with
\* random_batches on every s of the Index Set can be drawn at every access,
\* whatever idx is.
C16_WindowOrigin ==
    /\ \A c \in Callers :
        call[c].pc = "done" =>
            LET self == view[call[c].view]
            IN  /\ self.sample_size = self.model_timesteps
                /\ Len(call[c].input_sample) = self.sample_size
                /\ \E s \in Range(self.cv_indices) :
                    /\ call[c].input_sample = WindowInput(self, s)
                    /\ call[c].output_sample[1] = PositionLabel(self, s)
                    /\ (~self.shuffle /\ ~self.random_batches)
                        => s = self.cv_indices[call[c].og_idx + 1]
    /\ \A c \in Callers :
        (call[c].pc = "resolve" /\ view[call[c].view].random_batches) =>
            \A s \in Range(view[call[c].view].cv_indices) :
                ENABLED (/\ Next
                         /\ call'[c].pc = "output"
                         /\ call'[c].cut_range =
                                arange(s, s + view[call[c].view].model_timesteps))

\* C16 witness: on a random-batch view without shuffle a worker got a window of
\* two steps that does not start at the idx-th element of the Index Set
C16_Witness ==
    /\ pc = "ready"
    /\ call[1].pc = "done"
    /\ view[call[1].view].random_batches /\ ~view[call[1].view].shuffle
    /\ view[call[1].view].model_timesteps = 2
    /\ call[1].cut_range[1] # view[call[1].view].cv_indices[call[1].og_idx + 1]
    /\ call[1].input_sample = WindowInput(view[call[1].view], call[1].cut_range[1])

\* C18 as claimed: every time index a call of __getitem__ has read for the
\* current window and for the previous window lies in 0 .. T - 1; none is
\* negative.
C18_IndexBounds ==
    \A c \in Callers :
        call[c].pc \in {"input", "done"} =>
            \A t \in Range(call[c].cut_range) \cup Range(call[c].past_cut_range) :
                t \in 0..(RecordingLength - 1)

\* the time steps covered by the windows that start at the indices
Covered(indices, sample_size) ==
    { s + k : s \in Range(indices), k \in 0..(sample_size - 1) }

\* the time steps covered by a training window and by a testing window
Overlap ==
    Covered(opts.training_indices, opts.model_timesteps)
        \cap Covered(opts.testing_indices, opts.model_timesteps)

\* C19 as claimed: once the valid range is split, no time step is covered both
\* by a window of the training Index Set and by a window of the testing Index
\* Set.
C19_NoTemporalOverlap == pc # "split" => Overlap = {}

\* C19 amended: once the valid range is split, the two Index Sets have no
\* start index in common, and the time steps covered by windows of both are
\* exactly the sample_size - 1 steps from the first testing index on: none
\* when sample_size = 1.
C19_OverlapAtBoundary ==
    pc # "split" =>
        /\ Range(opts.training_indices) \cap Range(opts.testing_indices) = {}
        /\ Overlap = { opts.testing_indices[1] + k : k \in 0..(opts.model_timesteps - 2) }

\* C19 witness: windows of four steps, num_cvs = 3: the split is done and
\* three time steps are covered from both sides
C19_Witness ==
    /\ pc # "split"
    /\ opts.model_timesteps = 4
    /\ opts.num_cvs = 3
    /\ Cardinality(Overlap) = 3

\* n is 1, 2, 4, ...
IsPowerOfTwo(n) == \E k \in 0..30 : n = 2^k

\* C12 as claimed: the decoder's constructor ends in the fatal configuration
\* error exactly when the window length is not a power of two, and then no
\* layer has been built and forward has not run; every power of two passes.
C12_PowerOfTwoCheck ==
    model.pc # "none" =>
        /\ model.pc = "exit" <=> ~IsPowerOfTwo(tg.input_shape[2])
        /\ model.pc = "exit" => (DOMAIN model.layers = {} /\ logits.pc = "idle")

\* the output dimensionality configured for a target
OutputDim(key) == IF key = "position" THEN 2 ELSE 1

\* C13: when forward returns, it returns one prediction per configured target;
\* the i-th is the result of the final projection of the i-th name of
\* loss_functions, and its trailing dimension is the target's output
\* dimensionality: 2 for position, 1 for a scalar target.
C13_OnePredictionPerTarget ==
    logits.pc = "returned" =>
        /\ Len(logits.outputs) = Len(tg.loss_functions)
        /\ \A i \in DOMAIN logits.outputs :
            /\ Last(logits.outputs[i].steps) = target_fc(tg.loss_functions[i], tg.num_dense)
            /\ Last(logits.outputs[i].shape) = OutputDim(tg.loss_functions[i])
            /\ Last(logits.outputs[i].shape) = tg.outputs[i].shape[2]

\* C13 witness: a decoder with three heads of two dense layers has returned
\* predictions for a batch of two rows, scalar targets among them
C13_Witness ==
    /\ logits.pc = "returned"
    /\ logits.batch = 2
    /\ tg.num_dense = 2
    /\ tg.loss_functions = <<"speed", "position", "direction">>
    /\ logits.outputs[1].shape = <<2, 1>>
    /\ logits.outputs[2].shape = <<2, 2>>

\* the sum of the terms of the pairs in P, each pair once
RECURSIVE SumPairs(_, _)
SumPairs(values, P) ==
    IF P = {} THEN 0
    ELSE LET p == CHOOSE q \in P : TRUE
             i == CHOOSE k \in p : \A l \in p : k <= l
             j == CHOOSE k \in p : \A l \in p : l <= k
         IN  SumAbsSim(values[i], values[j], Len(values[i])) + SumPairs(values, P \ {p})

\* the features with the heads a and b swapped
Swapped(values, a, b) ==
    [i \in DOMAIN values |-> IF i = a THEN values[b] ELSE IF i = b THEN values[a] ELSE values[i]]

\* C14: when forward returns with the similarity flag set, the penalty is the
\* sum over the unordered pairs {i, j}, i # j, of heads, each pair once, of the
\* summed absolute cosine similarity of the two heads' features; it is not
\* negative, it is the same with any two heads swapped, and it is zero with
\* one target.  Without the flag forward returns the predictions alone.
C14_SimilarityPenalty ==
    /\ (logits.pc = "returned" /\ logits.return_co_sim) =>
        /\ logits.sim = SumPairs(logits.values,
                                 {p \in SUBSET DOMAIN logits.values : Cardinality(p) = 2})
        /\ logits.sim >= 0
        /\ \A a, b \in DOMAIN logits.values :
            SimLoop(Swapped(logits.values, a, b), 1, 2, 0) = logits.sim
        /\ Len(logits.values) = 1 => logits.sim = 0
    /\ (logits.pc = "returned" /\ ~logits.return_co_sim) =>
        /\ logits.sim = None
        /\ Len(logits.outputs) = Len(tg.loss_functions)

\* C14 witness: three heads, a batch of two rows; the penalty has a term from
\* a negative cosine and a term from a positive one
C14_Witness ==
    /\ logits.pc = "returned"
    /\ logits.return_co_sim
    /\ Len(logits.values) = 3
    /\ logits.values[1] = << <<3, 4>>, <<1, 0>> >>
    /\ logits.values[2] = << <<0, -1>>, <<3, 4>> >>
    /\ logits.values[3] = << <<1, 0>>, <<1, 0>> >>
    /\ logits.sim = (4 + 3) + (3 + 5) + (0 + 3)

\* C15 as claimed: when the constructor has returned, every layer that has a
\* weight or a bias is as initialise_layer leaves it: Kaiming-normal weight,
\* zero bias.
C15_LayersInitialised ==
    (model.pc = "built" /\ model.state_dict = "initial") =>
        \A name \in DOMAIN model.layers :
            model.layers[name] = initialise_layer(model.layers[name])

\* C17 as claimed: for every num_dense >= 0 a call of forward does not end in
\* an unbound local, and for every head the recorded feature tensor is the
\* input of that head's own final projection.
C17_FeaturesFeedFinalProjection ==
    /\ logits.pc # "UnboundLocalError"
    /\ logits.pc = "returned" =>
        \A i \in DOMAIN logits.outputs :
            logits.outputs[i].steps =
                Append(logits.final_fully_connected[i].steps,
                       target_fc(tg.loss_functions[i], tg.num_dense))

====
